---- MODULE Spec2Model ----
(***************************************************************************)
(* Model of the OCR ingestion pipeline (src/main.py): clean_sku,           *)
(* parse_table, get_images_from_message, read_existing and main().         *)
(*                                                                         *)
(* Text is a sequence of one-character strings, so that strip, lstrip,     *)
(* re.sub, re.search and str.contains are computed character by character. *)
(* A Python int is a sequence of digit values 0..9, most significant       *)
(* first and without leading zeros (Python ints are unbounded).            *)
(***************************************************************************)
EXTENDS Integers, Sequences, FiniteSets, TLC

VARIABLES
    \* ---- the spreadsheet and the mailbox (the world main() runs against)
    sheets,     \* worksheet title -> values (sequence of rows, header first)
    mailbox,    \* the messages the Gmail query matches, in list order
    \* ---- one run of main()
    pc,         \* position of main(): idle, opened, fetched, loop, images, append, done, aborted
    ws,         \* title of the worksheet sheets_client returned
    msgs,       \* result of fetch_messages
    existing,   \* result of read_existing
    rows,       \* the batch being built
    mi,         \* index in msgs of the message being processed
    images,     \* result of get_images_from_message for message mi
    ii,         \* index in images of the next image
    abortAt,    \* which call raised out of main(), "none" if none
    \* ---- history of the run (observers, never read by the program)
    prov,       \* for each row of the batch: <<message index, image index, item index>>
    processed,  \* <<message index, image index>> of every image whose loop body completed
    wrote,      \* write calls issued to the spreadsheet in this run, in order
    sheets0,    \* the spreadsheet as it was when this run started
    run,        \* number of runs started
    completed,  \* number of earlier runs that reached the end of main()
    \* ---- pure-function harnesses
    raw, cleaned,       \* clean_sku: input and result
    df, out, parsed,    \* parse_table: OCR data frame, result, whether it ran
    \* ---- one run of the forwarding stage (src/parrotfy_sync.py main)
    strict,         \* STRICT_PRICES
    spc,            \* position: idle, built, imported, marked, done, failed
    price_map,      \* result of read_prices
    pending,        \* pending_rows of pick_rows: <<sku, qty>>
    row_ids,        \* row_indexes of pick_rows (1-based sheet rows)
    import_text,    \* text built by build_import_text
    missing,        \* identifiers without a price
    triples,        \* <<sku, qty, price_str>> of the payload
    \* ---- history of the forwarding stage
    payload_ids,    \* sheet rows of the records that are in the payload
    submitted,      \* payloads run_parrotfy_import submitted without error
    stamped,        \* sheet rows mark_sent stamped in this run
    sentBefore,     \* sheet rows stamped by earlier runs
    syncRun,        \* number of forwarding runs started
    ingested        \* number of rows the ingestion stage appended meanwhile

vars == <<sheets, mailbox, pc, ws, msgs, existing, rows, mi, images, ii, abortAt,
          prov, processed, wrote, sheets0, run, completed, raw, cleaned, df, out, parsed,
          strict, spc, price_map, pending, row_ids, import_text, missing, triples,
          payload_ids, submitted, stamped, sentBefore, syncRun, ingested>>

syncVars == <<strict, spc, price_map, pending, row_ids, import_text, missing, triples,
              payload_ids, submitted, stamped, sentBefore, syncRun, ingested>>

mainVars == <<sheets, mailbox, pc, ws, msgs, existing, mi, images, ii, abortAt,
              prov, processed, wrote, sheets0, run, completed>>

(***************************************************************************)
(* Bounds                                                                  *)
(***************************************************************************)
MaxRawLen == 3          \* longest input of clean_sku
MaxLineDigits == 2      \* most quantity candidates on the OCR line
MaxMsgs == 2            \* most messages in the mailbox
MaxRuns == 3            \* most runs of main()
MaxSyncRows == 2        \* most data rows in the ledger when forwarding starts
MaxSyncRuns == 2        \* most runs of the forwarding stage
MaxIngest == 1          \* most rows ingestion appends while forwarding runs

(***************************************************************************)
(* Characters and text                                                     *)
(***************************************************************************)
Digits == {"0", "1", "2", "3", "4", "5", "6", "7", "8", "9"}
Whitespace == {" "}
None == <<"<None>">>

IsDigit(c) == c \in Digits

DigitVal(c) ==
    CASE c = "0" -> 0 [] c = "1" -> 1 [] c = "2" -> 2 [] c = "3" -> 3 [] c = "4" -> 4
      [] c = "5" -> 5 [] c = "6" -> 6 [] c = "7" -> 7 [] c = "8" -> 8 [] c = "9" -> 9

DigitChar(d) == <<"0", "1", "2", "3", "4", "5", "6", "7", "8", "9">>[d + 1]

Upper(c) ==
    CASE c = "a" -> "A" [] c = "b" -> "B" [] c = "c" -> "C" [] c = "d" -> "D"
      [] c = "e" -> "E" [] c = "i" -> "I" [] c = "n" -> "N" [] c = "r" -> "R"
      [] c = "s" -> "S" [] c = "v" -> "V" [] OTHER -> c

RECURSIVE LStrip(_, _)
LStrip(s, chars) ==
    IF s # <<>> /\ Head(s) \in chars THEN LStrip(Tail(s), chars) ELSE s

RECURSIVE RStrip(_, _)
RStrip(s, chars) ==
    IF s # <<>> /\ s[Len(s)] \in chars THEN RStrip(SubSeq(s, 1, Len(s) - 1), chars) ELSE s

\* str.strip()
Strip(s) == RStrip(LStrip(s, Whitespace), Whitespace)

\* str.fullmatch(r"\d+")
FullMatchDigits(s) == s # <<>> /\ \A i \in 1..Len(s) : IsDigit(s[i])

\* str.contains(pattern, case=False) for a literal upper-case pattern
ContainsIgnoreCase(s, pat) ==
    \E i \in 0..(Len(s) - Len(pat)) :
        \A k \in 1..Len(pat) : Upper(s[i + k]) = pat[k]

\* int(text) for a text of digits
IntOf(s) ==
    LET ds == [i \in 1..Len(s) |-> DigitVal(s[i])]
        nz == {i \in 1..Len(ds) : ds[i] # 0}
    IN  IF nz = {} THEN <<0>>
        ELSE LET f == CHOOSE i \in nz : \A j \in nz : i <= j
             IN  SubSeq(ds, f, Len(ds))

\* str(n) for a non-negative int
StrOfInt(n) == [i \in 1..Len(n) |-> DigitChar(n[i])]

(***************************************************************************)
(* clean_sku (src/main.py 37-48)                                           *)
(***************************************************************************)
clean_sku_keeps_letters(r) ==
    IF r = None THEN <<>> ELSE LStrip(Strip(r), {"'"})

clean_sku(r) ==
    IF r = None THEN <<>>
    ELSE SelectSeq(LStrip(Strip(r), {"'"}), IsDigit)

(***************************************************************************)
(* parse_table (src/main.py 114-181)                                       *)
(* An OCR token is [text, left, width, conf, block, par, line]; df is the  *)
(* data frame image_to_data returns, as the sequence of its tokens.        *)
(***************************************************************************)
NoSpan == <<>>      \* find_col_span returned None

\* df.dropna(subset=["text"]); text.str.strip(); df[df["text"] != ""]
StripText(t) == [t EXCEPT !.text = Strip(t.text)]
HasText(t) == Strip(t.text) # <<>>
UsableTokens(d) ==
    LET kept == SelectSeq(d, HasText)
    IN  [i \in 1..Len(kept) |-> StripText(kept[i])]

\* sort_values(["conf", "width"], ascending=[False, False]).iloc[0]
BestHeader(m) ==
    LET Before(i, j) ==
            \/ m[i].conf > m[j].conf
            \/ m[i].conf = m[j].conf /\ m[i].width > m[j].width
            \/ m[i].conf = m[j].conf /\ m[i].width = m[j].width /\ i < j
    IN  m[CHOOSE i \in 1..Len(m) : \A j \in 1..Len(m) : j # i => Before(i, j)]

find_col_span(d, pattern) ==
    LET Matches(t) == ContainsIgnoreCase(t.text, pattern)
        m == SelectSeq(d, Matches)
    IN  IF m = <<>> THEN NoSpan
        ELSE LET r == BestHeader(m)
                 x1 == r.left
                 x2 == x1 + r.width
             IN  <<x1, x2>>

LineKey(t) == <<t.block, t.par, t.line>>

KeyLess(a, b) ==
    \/ a[1] < b[1]
    \/ a[1] = b[1] /\ a[2] < b[2]
    \/ a[1] = b[1] /\ a[2] = b[2] /\ a[3] < b[3]

\* the group keys of df.groupby([...]), which iterates them in ascending order
RECURSIVE SortedKeys(_)
SortedKeys(ks) ==
    IF ks = {} THEN <<>>
    ELSE LET k == CHOOSE a \in ks : \A b \in ks : b # a => KeyLess(a, b)
         IN  <<k>> \o SortedKeys(ks \ {k})

\* g.sort_values("left"): insertion of each token after those not to its right
RECURSIVE InsertByLeft(_, _)
InsertByLeft(sorted, t) ==
    IF sorted = <<>> THEN <<t>>
    ELSE IF sorted[Len(sorted)].left <= t.left THEN Append(sorted, t)
    ELSE Append(InsertByLeft(SubSeq(sorted, 1, Len(sorted) - 1), t), sorted[Len(sorted)])

RECURSIVE SortByLeft(_)
SortByLeft(g) ==
    IF g = <<>> THEN <<>>
    ELSE InsertByLeft(SortByLeft(SubSeq(g, 1, Len(g) - 1)), g[Len(g)])

\* " ".join(g["text"]).replace(" ", "")
RECURSIVE LineTextNoSpaces(_)
LineTextNoSpaces(g) ==
    IF g = <<>> THEN <<>>
    ELSE LET NotSpace(c) == c # " "
         IN  SelectSeq(Head(g).text, NotSpace) \o LineTextNoSpaces(Tail(g))

\* re.search(r"(\d{10,16})", txt): leftmost start of 10 digits, then greedy up to 16
SkuMin == 10
SkuMax == 16

DigitRunFrom(txt, i) ==
    LET ends == {j \in i..Len(txt) : \A k \in i..j : IsDigit(txt[k])}
    IN  Cardinality(ends)

SearchSku(txt) ==
    LET starts == {i \in 1..Len(txt) : DigitRunFrom(txt, i) >= SkuMin}
    IN  IF starts = {} THEN <<>>
        ELSE LET i == CHOOSE a \in starts : \A b \in starts : a <= b
                 n == DigitRunFrom(txt, i)
                 len == IF n > SkuMax THEN SkuMax ELSE n
             IN  SubSeq(txt, i, i + len - 1)

IsDigitToken(t) == FullMatchDigits(t.text)

SpanMargin == 5

\* digits[(cx >= span_rec[0]-5) & (cx <= span_rec[1]+5)] with cx = left + width/2,
\* compared after doubling both sides
InRecSpan(t, span_rec) ==
    /\ 2 * t.left + t.width >= 2 * (span_rec[1] - SpanMargin)
    /\ 2 * t.left + t.width <= 2 * (span_rec[2] + SpanMargin)

\* the body of the loop over line groups: no item, or one item
LineItem_leftmost_in_span(g0, span_env, span_rec) ==
    LET g == SortByLeft(g0)
        sku == SearchSku(LineTextNoSpaces(g))
        digits == SelectSeq(g, IsDigitToken)
        InRec(t) == InRecSpan(t, span_rec)
        in_rec == IF span_rec # NoSpan THEN SelectSeq(digits, InRec) ELSE <<>>
        rec == IF in_rec # <<>> THEN IntOf(in_rec[1].text)
               ELSE IF span_rec # NoSpan \/ span_env # NoSpan THEN <<0>>
               ELSE IntOf(digits[Len(digits)].text)
    IN  IF sku = <<>> \/ digits = <<>> THEN <<>>
        ELSE <<[sku |-> sku, un_recibidas |-> rec]>>

LineItem_no_zero_default(g0, span_env, span_rec) ==
    LET g == SortByLeft(g0)
        sku == SearchSku(LineTextNoSpaces(g))
        digits == SelectSeq(g, IsDigitToken)
        InRec(t) == InRecSpan(t, span_rec)
        in_rec == IF span_rec # NoSpan THEN SelectSeq(digits, InRec) ELSE <<>>
        rec == IF in_rec # <<>> THEN IntOf(in_rec[Len(in_rec)].text)
               ELSE IntOf(digits[Len(digits)].text)
    IN  IF sku = <<>> \/ digits = <<>> THEN <<>>
        ELSE <<[sku |-> sku, un_recibidas |-> rec]>>

LineItem_leftmost_fallback(g0, span_env, span_rec) ==
    LET g == SortByLeft(g0)
        sku == SearchSku(LineTextNoSpaces(g))
        digits == SelectSeq(g, IsDigitToken)
        InRec(t) == InRecSpan(t, span_rec)
        in_rec == IF span_rec # NoSpan THEN SelectSeq(digits, InRec) ELSE <<>>
        rec == IF in_rec # <<>> THEN IntOf(in_rec[Len(in_rec)].text)
               ELSE IF span_rec # NoSpan \/ span_env # NoSpan THEN <<0>>
               ELSE IntOf(digits[1].text)
    IN  IF sku = <<>> \/ digits = <<>> THEN <<>>
        ELSE <<[sku |-> sku, un_recibidas |-> rec]>>

LineItem(g0, span_env, span_rec) ==
    LET g == SortByLeft(g0)
        sku == SearchSku(LineTextNoSpaces(g))
        digits == SelectSeq(g, IsDigitToken)
        InRec(t) == InRecSpan(t, span_rec)
        in_rec == IF span_rec # NoSpan THEN SelectSeq(digits, InRec) ELSE <<>>
        rec == IF in_rec # <<>> THEN IntOf(in_rec[Len(in_rec)].text)
               ELSE IF span_rec # NoSpan \/ span_env # NoSpan THEN <<0>>
               ELSE IntOf(digits[Len(digits)].text)
    IN  IF sku = <<>> \/ digits = <<>> THEN <<>>
        ELSE <<[sku |-> sku, un_recibidas |-> rec]>>

PatEnviad == <<"E", "N", "V", "I", "A", "D">>
PatRecib == <<"R", "E", "C", "I", "B">>

RECURSIVE LineItems(_, _, _, _)
LineItems(d, keys, span_env, span_rec) ==
    IF keys = <<>> THEN <<>>
    ELSE LET InGroup(t) == LineKey(t) = Head(keys)
         IN  LineItem(SelectSeq(d, InGroup), span_env, span_rec)
                 \o LineItems(d, Tail(keys), span_env, span_rec)

parse_table(data) ==
    LET d == UsableTokens(data)
        span_env == find_col_span(d, PatEnviad)
        span_rec == find_col_span(d, PatRecib)
        keys == SortedKeys({LineKey(d[i]) : i \in 1..Len(d)})
    IN  LineItems(d, keys, span_env, span_rec)

(***************************************************************************)
(* The loop over the items of one image (src/main.py 300-308)              *)
(***************************************************************************)
ItemKey(it, message_id) ==
    <<message_id, clean_sku(it.sku), StrOfInt(it.un_recibidas)>>

\* indices of the items that reach rows.append, in order
KeptItems(items, message_id, existingKeys) ==
    LET Kept(k) ==
            /\ clean_sku(items[k].sku) # <<>>
            /\ ItemKey(items[k], message_id) \notin existingKeys
    IN  SelectSeq([k \in 1..Len(items) |-> k], Kept)

NewRow(it, fecha, message_id, img_hash, origin) ==
    <<fecha, clean_sku(it.sku), StrOfInt(it.un_recibidas), message_id, img_hash, origin>>

NewRows(items, fecha, message_id, img_hash, origin, existingKeys) ==
    LET kept == KeptItems(items, message_id, existingKeys)
    IN  [k \in 1..Len(kept) |-> NewRow(items[kept[k]], fecha, message_id, img_hash, origin)]

(***************************************************************************)
(* Idle values of the variables a specification does not use               *)
(***************************************************************************)
MainIdle ==
    /\ sheets = <<>> /\ mailbox = <<>> /\ pc = "idle" /\ ws = "" /\ msgs = <<>>
    /\ existing = {} /\ mi = 0 /\ images = <<>> /\ ii = 0 /\ abortAt = "none"
    /\ prov = <<>> /\ processed = {} /\ wrote = <<>> /\ sheets0 = <<>>
    /\ run = 0 /\ completed = 0

SyncIdle ==
    /\ strict = TRUE /\ spc = "idle" /\ price_map = <<>> /\ pending = <<>>
    /\ row_ids = <<>> /\ import_text = <<>> /\ missing = <<>> /\ triples = <<>>
    /\ payload_ids = {} /\ submitted = <<>> /\ stamped = {} /\ sentBefore = {}
    /\ syncRun = 0 /\ ingested = 0

CleanIdle == raw = None /\ cleaned = None
ParseIdle == df = <<>> /\ out = <<>> /\ parsed = FALSE

(***************************************************************************)
(* clean_sku on bounded inputs, followed by the item loop of main() on an  *)
(* item carrying that identifier                                           *)
(***************************************************************************)
CleanAlphabet == {"1", "7", "0", "'", " ", "a"}

RECURSIVE TextsUpTo(_)
TextsUpTo(n) ==
    IF n = 0 THEN {<<>>}
    ELSE LET shorter == TextsUpTo(n - 1)
         IN  shorter \cup {Append(s, c) : s \in shorter, c \in CleanAlphabet}

RawInputs == {None} \cup TextsUpTo(MaxRawLen)

InitClean ==
    /\ raw \in RawInputs
    /\ cleaned = None
    /\ rows = <<>>
    /\ MainIdle /\ ParseIdle /\ SyncIdle

Clean ==
    /\ cleaned = None
    /\ cleaned' = clean_sku(raw)
    /\ rows' = rows \o NewRows(<<[sku |-> raw, un_recibidas |-> <<1>>]>>,
                               "f1", "m1", "h1", "inline", {})
    /\ UNCHANGED <<mainVars, raw, df, out, parsed, syncVars>>

NextClean == Clean

SpecClean == InitClean /\ [][NextClean]_vars

(***************************************************************************)
(* parse_table on bounded OCR data                                         *)
(***************************************************************************)
Tok(text, left, width, conf, line) ==
    [text |-> text, left |-> left, width |-> width, conf |-> conf,
     block |-> 1, par |-> 1, line |-> line]

TxtEnviadas == <<"E", "N", "V", "I", "A", "D", "A", "S">>
TxtRecibidas == <<"R", "e", "c", "i", "b", "i", "d", "a", "s">>
TxtRecibido == <<"r", "e", "c", "i", "b", "i", "d", "o">>
TxtPolera == <<"P", "o", "l", "e", "r", "a">>
SkuA == <<"1", "7", "8", "0", "2", "3", "4", "5", "6", "7">>
SkuB == <<"1", "7", "8", "0", "9", "9", "9", "0", "0", "0", "1">>
TxtSkuPrefixed == <<"S", "K", "U", ":">> \o SkuA

\* header line (line 1): nothing, both headers, one of them, or two "received" matches
HeaderChoices ==
    { <<>>,
      <<Tok(TxtEnviadas, 100, 60, 90, 1), Tok(TxtRecibidas, 200, 60, 90, 1)>>,
      <<Tok(TxtEnviadas, 100, 60, 90, 1)>>,
      <<Tok(TxtRecibidas, 200, 60, 90, 1)>>,
      <<Tok(TxtRecibido, 400, 50, 40, 1), Tok(TxtRecibidas, 200, 60, 90, 1)>> }

\* identifier cell of the data line (line 2), followed by a description
SkuChoices ==
    { <<>>,
      <<Tok(TxtPolera, 60, 40, 80, 2), Tok(SkuA, 5, 50, 95, 2)>>,
      <<Tok(TxtPolera, 60, 40, 80, 2), Tok(TxtSkuPrefixed, 5, 50, 95, 2)>> }

QtyTexts == {<<"5">>, <<"1", "2">>, <<"0", "0", "7">>}
\* <<left, width>>: under "sent", around both edges of the widened "received"
\* column (centres 194.5, 195, 230, 265, 265.5), and right of every column
QtyBoxes == {<<120, 20>>, <<189, 11>>, <<190, 10>>, <<225, 10>>, <<260, 10>>,
             <<261, 9>>, <<300, 20>>}

QtyTokens == {Tok(t, b[1], b[2], 85, 2) : t \in QtyTexts, b \in QtyBoxes}

QtyChoices ==
    {S \in SUBSET QtyTokens :
        /\ Cardinality(S) <= MaxLineDigits
        /\ \A a \in S, b \in S : a # b => a.left # b.left}

\* the tokens of a set, rightmost first (the code must sort them itself)
RECURSIVE RightToLeft(_)
RightToLeft(S) ==
    IF S = {} THEN <<>>
    ELSE LET t == CHOOSE a \in S : \A b \in S : b.left <= a.left
         IN  <<t>> \o RightToLeft(S \ {t})

\* a second data line (line 3), listed before line 2 in the data frame
ExtraLineChoices ==
    { <<>>, <<Tok(<<"3">>, 225, 10, 85, 3), Tok(SkuB, 5, 55, 95, 3),
            Tok(<<" ">>, 150, 5, 10, 3), Tok(TxtPolera, 70, 40, 80, 3)>> }

ParseInputs ==
    {x \o h \o RightToLeft(q) \o s :
        x \in ExtraLineChoices, h \in HeaderChoices, q \in QtyChoices, s \in SkuChoices}

InitParse ==
    /\ df \in ParseInputs
    /\ out = <<>>
    /\ parsed = FALSE
    /\ rows = <<>>
    /\ MainIdle /\ CleanIdle /\ SyncIdle

Parse ==
    /\ ~parsed
    /\ out' = parse_table(df)
    /\ parsed' = TRUE
    /\ UNCHANGED <<mainVars, rows, raw, cleaned, df, syncVars>>

NextParse == Parse

SpecParse == InitParse /\ [][NextParse]_vars

(***************************************************************************)
(* Properties of parse_table (SpecParse)                                   *)
(***************************************************************************)
DataLine == {df[i] : i \in {j \in 1..Len(df) : df[j].line = 2}}
DataLineDigits == {t \in DataLine : \A k \in 1..Len(t.text) : t.text[k] \in Digits}
SentDetected == \E i \in 1..Len(df) : df[i].text = TxtEnviadas
\* the "received" header of every input that has one is the token at [200, 260]
ReceivedDetected == \E i \in 1..Len(df) : df[i].text = TxtRecibidas
ReceivedSpan == <<200, 260>>
\* centre = left + width/2 within [x1 - 5, x2 + 5], both sides doubled
UnderReceived(t) ==
    /\ 2 * t.left + t.width >= 2 * ReceivedSpan[1] - 10
    /\ 2 * t.left + t.width <= 2 * ReceivedSpan[2] + 10
Rightmost(S) == CHOOSE t \in S : \A u \in S : u.left <= t.left
TextValue(text) ==
    CASE text = <<"5">> -> <<5>>
      [] text = <<"1", "2">> -> <<1, 2>>
      [] text = <<"0", "0", "7">> -> <<7>>
      [] text = SkuA -> <<1, 7, 8, 0, 2, 3, 4, 5, 6, 7>>
\* the data line yields a record: it has an identifier and a digit token
DataLineYields ==
    /\ \E t \in DataLine : t.text \in {SkuA, TxtSkuPrefixed}
    /\ DataLineDigits # {}
DataItems == {i \in 1..Len(out) : out[i].sku = SkuA}
DataQuantityIs(v) ==
    /\ Cardinality(DataItems) = 1
    /\ \A i \in DataItems : out[i].un_recibidas = v

\* C3: with a "received" span [x1, x2] detected and a digit token of the line
\* centred within [x1-5, x2+5], the quantity is the value of the rightmost such
\* token, whatever digit tokens lie outside that range.
C3_HeaderDrivenQuantity ==
    (parsed /\ ReceivedDetected /\ DataLineYields
        /\ {t \in DataLineDigits : UnderReceived(t)} # {})
    => DataQuantityIs(TextValue(Rightmost({t \in DataLineDigits : UnderReceived(t)}).text))

\* "5" centred at 130 under "sent", "12" centred at 230 under "received": 12
C3_Witness ==
    /\ parsed /\ SentDetected /\ ReceivedDetected
    /\ Tok(<<"5">>, 120, 20, 85, 2) \in DataLine
    /\ Tok(<<"1", "2">>, 225, 10, 85, 2) \in DataLine
    /\ DataQuantityIs(<<1, 2>>)

\* C4: with a header span detected and no digit token of the line centred in
\* the widened "received" span, the quantity is 0.
C4_EmptyColumnIsZero ==
    (parsed /\ (SentDetected \/ ReceivedDetected) /\ DataLineYields
        /\ (ReceivedDetected => {t \in DataLineDigits : UnderReceived(t)} = {}))
    => DataQuantityIs(<<0>>)

\* only "sent" detected, "12" right of every column: 0, not 12
C4_Witness ==
    /\ parsed /\ SentDetected /\ ~ReceivedDetected
    /\ Tok(<<"1", "2">>, 300, 20, 85, 2) \in DataLine
    /\ DataQuantityIs(<<0>>)

\* C5: with neither header detected, the quantity of a line that yields a
\* record is the value of its rightmost digit token.
C5_NoHeaderFallback ==
    (parsed /\ ~SentDetected /\ ~ReceivedDetected)
    => /\ DataLineYields => DataQuantityIs(TextValue(Rightmost(DataLineDigits).text))
       /\ \A i \in 1..Len(out) : out[i].sku = SkuB => out[i].un_recibidas = <<3>>

\* "5" at x=120 and "007" at x=300: 7
C5_Witness ==
    /\ parsed /\ ~SentDetected /\ ~ReceivedDetected
    /\ Tok(<<"5">>, 120, 20, 85, 2) \in DataLine
    /\ Tok(<<"0", "0", "7">>, 300, 20, 85, 2) \in DataLine
    /\ DataQuantityIs(<<7>>)
    /\ \E i \in 1..Len(out) : out[i].sku = SkuB

(***************************************************************************)
(* Properties of clean_sku (SpecClean)                                     *)
(***************************************************************************)
RECURSIVE DigitsOf(_)
DigitsOf(s) ==
    IF s = <<>> THEN <<>>
    ELSE (IF Head(s) \in Digits THEN <<Head(s)>> ELSE <<>>) \o DigitsOf(Tail(s))

\* C6: clean_sku returns exactly the digits of its input in their order (the
\* empty string for None and for digit-free input), and the item loop of main
\* never puts a row with an empty identifier into the batch.
C6_Canonicalization ==
    cleaned # None =>
        /\ \A i \in 1..Len(cleaned) : cleaned[i] \in Digits
        /\ cleaned = (IF raw = None THEN <<>> ELSE DigitsOf(raw))
        /\ \A i \in 1..Len(rows) : rows[i][2] # <<>>
        /\ (cleaned = <<>>) = (rows = <<>>)

\* "'a" canonicalizes to the empty string and its record is dropped
C6_Witness ==
    /\ raw = <<"'", "a">> /\ cleaned = <<>> /\ rows = <<>>

(***************************************************************************)
(* The world of main(): images, messages, the spreadsheet                  *)
(***************************************************************************)
\* Decodable images, named by content. OcrData is what image_to_data returns
\* for the preprocessed image; TesseractFails are the images on which the OCR
\* engine raises.
ImageNames == {"imgH", "imgN", "imgDup", "imgBlank", "imgBad"}
TesseractFails == {"imgBad"}

OcrData(img) ==
    CASE img = "imgH" ->
            << Tok(TxtEnviadas, 100, 60, 90, 1), Tok(TxtRecibidas, 200, 60, 90, 1),
               Tok(SkuA, 5, 50, 95, 2), Tok(TxtPolera, 60, 40, 80, 2),
               Tok(<<"5">>, 120, 20, 85, 2), Tok(<<"1", "2">>, 225, 10, 85, 2),
               Tok(SkuB, 5, 55, 95, 3), Tok(TxtPolera, 60, 40, 80, 3),
               Tok(<<"5">>, 120, 20, 85, 3) >>
      [] img = "imgN" ->
            << Tok(SkuA, 5, 50, 95, 1), Tok(TxtPolera, 60, 40, 80, 1),
               Tok(<<"1", "2">>, 300, 20, 85, 1) >>
      [] img = "imgDup" ->
            << Tok(SkuB, 5, 55, 95, 1), Tok(TxtPolera, 60, 40, 80, 1),
               Tok(<<"5">>, 300, 20, 85, 1),
               Tok(SkuB, 5, 55, 95, 2), Tok(TxtPolera, 60, 40, 80, 2),
               Tok(<<"0", "5">>, 300, 20, 85, 2) >>
      [] OTHER -> <<>>

\* preprocess (src/main.py 85-96): a new single-channel, upscaled, binarized image
preprocess(pil) == [pixels |-> pil.pixels, mode |-> "L", scale |-> 3]

\* hash_image (src/main.py 183-186): a digest determined by the image content
hash_image(pre) == <<"sha256", pre.pixels, pre.mode, pre.scale>>

\* MIME parts. body.data and attachment data are the bytes: an image name when
\* they decode as that image, "garbage" when they are not an image, "" when empty.
Part(mime, filename, attachmentId, data, parts) ==
    [mimeType |-> mime, filename |-> filename,
     body |-> [attachmentId |-> attachmentId, data |-> data], parts |-> parts]

AttachmentData(id) ==
    CASE id = "attH" -> "imgH" [] id = "attBad" -> "imgBad" [] OTHER -> "garbage"

IsImageMime(mime) == mime \in {"image/png", "image/jpeg"}

TextPart == Part("text/plain", "", "", "hola", <<>>)
GarbagePart == Part("image/png", "", "", "garbage", <<>>)
GarbageAttachment == Part("image/jpeg", "x.jpg", "attX", "", <<>>)
EmptyImagePart == Part("image/png", "", "", "", <<>>)
InlineN == Part("image/png", "", "", "imgN", <<>>)
InlineDup == Part("image/png", "", "", "imgDup", <<>>)
InlineBlank == Part("image/png", "", "", "imgBlank", <<>>)
AttachedH == Part("image/jpeg", "guia.jpg", "attH", "", <<>>)
AttachedBad == Part("image/jpeg", "mala.jpg", "attBad", "", <<>>)

Message(id, date, payload) == [id |-> id, date |-> date, payload |-> payload]

Messages ==
    { Message("mA", "d1", Part("multipart/mixed", "", "", "",
                               <<TextPart, GarbagePart, AttachedH, InlineBlank>>)),
      Message("mB", "d2", InlineN),
      Message("mC", "bad-date", Part("multipart/mixed", "", "", "",
                               <<AttachedH, Part("multipart/related", "", "", "",
                                                 <<GarbageAttachment, InlineN>>)>>)),
      Message("mD", "d1", Part("multipart/mixed", "", "", "", <<EmptyImagePart, InlineDup>>)),
      Message("mE", "d2", Part("multipart/mixed", "", "", "", <<AttachedBad, InlineN>>)) }

RECURSIVE MailboxesUpTo(_)
MailboxesUpTo(n) ==
    IF n = 0 THEN {<<>>}
    ELSE LET shorter == MailboxesUpTo(n - 1)
         IN  shorter \cup
             {Append(b, m) : b \in shorter, m \in Messages} 

Mailboxes ==
    {b \in MailboxesUpTo(MaxMsgs) : \A i, j \in 1..Len(b) : i # j => b[i].id # b[j].id}

Preferred == "OCR Recepciones"
Alt == "OCR Recepeciones"
Header == <<"fecha_correo", "sku", "un_recibidas", "message_id", "img_hash", "origen">>

\* the spreadsheet before the first run: without the tab, with the tab under
\* either title holding its header, or holding a row of an earlier ingestion.
\* A ledger tab always starts with the header row sheets_client writes (78),
\* the column contract both stages index by name.
Prices == "Precios"
PricesValues == << <<"sku", "precio">> >>

SheetWith(tabs, values) ==
    [t \in tabs \cup {Prices} |-> IF t = Prices THEN PricesValues ELSE values]

\* rows written before identifiers were cleaned and quantities normalized: a
\* quantity cell "00", and an identifier cell with the leading apostrophe
LegacyZeroRow ==
    <<"2026-02-20 08:00:00", SkuB, <<"0", "0">>, "mA",
      hash_image(preprocess([pixels |-> "imgH"])), "attachment">>
LegacyApostropheRow ==
    <<"2026-02-21 08:00:00", <<"'">> \o SkuA, <<"1", "2">>, "mB",
      hash_image(preprocess([pixels |-> "imgN"])), "inline">>

InitialSheets ==
    { SheetWith({}, <<>>),
      SheetWith({Preferred}, <<Header>>),
      SheetWith({Alt}, <<Header>>),
      SheetWith({Preferred, Alt}, <<Header>>),
      SheetWith({Preferred},
          <<Header, <<"2026-03-01 09:00:00", SkuA, <<"1", "2">>, "mB",
                      hash_image(preprocess([pixels |-> "imgN"])), "inline">> >>),
      SheetWith({Preferred}, <<Header, LegacyZeroRow, LegacyApostropheRow>>) }

(***************************************************************************)
(* get_images_from_message (src/main.py 191-228)                           *)
(***************************************************************************)
PartBytes(part) ==
    IF part.body.attachmentId # "" THEN AttachmentData(part.body.attachmentId)
    ELSE part.body.data

\* Image.open(io.BytesIO(data)).convert("RGB") raises on bytes that are no image
Decodes(data) == data \in ImageNames

\* what dig does at one part, before descending: [raised, out]
DigPart_decode_error_escapes(part) ==
    IF IsImageMime(part.mimeType) /\ PartBytes(part) # ""
    THEN IF Decodes(PartBytes(part))
         THEN [raised |-> FALSE,
               out |-> << <<IF part.filename # "" THEN "attachment" ELSE "inline",
                            [pixels |-> PartBytes(part)]>> >>]
         ELSE [raised |-> TRUE, out |-> <<>>]
    ELSE [raised |-> FALSE, out |-> <<>>]

DigPart(part) ==
    IF IsImageMime(part.mimeType) /\ PartBytes(part) # "" /\ Decodes(PartBytes(part))
    THEN [raised |-> FALSE,
          out |-> << <<IF part.filename # "" THEN "attachment" ELSE "inline",
                       [pixels |-> PartBytes(part)]>> >>]
    ELSE [raised |-> FALSE, out |-> <<>>]

RECURSIVE dig(_)
dig(part) ==
    LET own == DigPart(part)
        RECURSIVE digAll(_)
        digAll(ps) ==
            IF ps = <<>> THEN [raised |-> FALSE, out |-> <<>>]
            ELSE LET first == dig(Head(ps))
                     rest == digAll(Tail(ps))
                 IN  IF first.raised THEN first
                     ELSE [raised |-> rest.raised, out |-> first.out \o rest.out]
        below == digAll(part.parts)
    IN  IF own.raised THEN own
        ELSE [raised |-> below.raised, out |-> own.out \o below.out]

get_images_from_message(msg) == dig(msg.payload)

(***************************************************************************)
(* fetch_messages, read_existing, parse_gmail_date (src/main.py 230-257)   *)
(***************************************************************************)
fetch_messages(box) == [i \in 1..Len(box) |-> [id |-> box[i].id]]

\* svc.users().messages().get(id=...)
GetMessageById(box, id) == box[CHOOSE i \in 1..Len(box) : box[i].id = id]

ColumnIndex(header, name) ==
    LET at == {i \in 1..Len(header) : header[i] = name}
    IN  IF at = {} THEN 0 ELSE CHOOSE i \in at : \A j \in at : j <= i

\* [raised, keys]: raised is the KeyError of idx["message_id"]
read_existing_skips_first_row(values) ==
    IF values = <<>> THEN [raised |-> FALSE, keys |-> {}]
    ELSE LET header == values[1]
             iSku == ColumnIndex(header, "sku")
             iUn == ColumnIndex(header, "un_recibidas")
             iMid == ColumnIndex(header, "message_id")
             full == {i \in 3..Len(values) : Len(values[i]) >= Len(header)}
         IN  IF full # {} /\ iMid = 0 THEN [raised |-> TRUE, keys |-> {}]
             ELSE [raised |-> FALSE,
                   keys |-> { << values[i][iMid],
                                 IF iSku # 0 THEN clean_sku(values[i][iSku]) ELSE <<>>,
                                 IF iUn # 0 THEN values[i][iUn] ELSE <<>> >> : i \in full }]

read_existing_normalizes_quantity(values) ==
    IF values = <<>> THEN [raised |-> FALSE, keys |-> {}]
    ELSE LET header == values[1]
             iSku == ColumnIndex(header, "sku")
             iUn == ColumnIndex(header, "un_recibidas")
             iMid == ColumnIndex(header, "message_id")
             full == {i \in 2..Len(values) : Len(values[i]) >= Len(header)}
         IN  IF full # {} /\ iMid = 0 THEN [raised |-> TRUE, keys |-> {}]
             ELSE [raised |-> FALSE,
                   keys |-> { << values[i][iMid],
                                 IF iSku # 0 THEN clean_sku(values[i][iSku]) ELSE <<>>,
                                 IF iUn # 0 THEN StrOfInt(IntOf(values[i][iUn])) ELSE <<>> >> : i \in full }]

read_existing_raw_sku(values) ==
    IF values = <<>> THEN [raised |-> FALSE, keys |-> {}]
    ELSE LET header == values[1]
             iSku == ColumnIndex(header, "sku")
             iUn == ColumnIndex(header, "un_recibidas")
             iMid == ColumnIndex(header, "message_id")
             full == {i \in 2..Len(values) : Len(values[i]) >= Len(header)}
         IN  IF full # {} /\ iMid = 0 THEN [raised |-> TRUE, keys |-> {}]
             ELSE [raised |-> FALSE,
                   keys |-> { << values[i][iMid],
                                 IF iSku # 0 THEN values[i][iSku] ELSE <<>>,
                                 IF iUn # 0 THEN values[i][iUn] ELSE <<>> >> : i \in full }]

read_existing(values) ==
    IF values = <<>> THEN [raised |-> FALSE, keys |-> {}]
    ELSE LET header == values[1]
             iSku == ColumnIndex(header, "sku")
             iUn == ColumnIndex(header, "un_recibidas")
             iMid == ColumnIndex(header, "message_id")
             full == {i \in 2..Len(values) : Len(values[i]) >= Len(header)}
         IN  IF full # {} /\ iMid = 0 THEN [raised |-> TRUE, keys |-> {}]
             ELSE [raised |-> FALSE,
                   keys |-> { << values[i][iMid],
                                 IF iSku # 0 THEN clean_sku(values[i][iSku]) ELSE <<>>,
                                 IF iUn # 0 THEN values[i][iUn] ELSE <<>> >> : i \in full }]

\* a parseable date is converted to America/Santiago; any other gives the current time
parse_gmail_date(date_str) ==
    CASE date_str = "d1" -> "2026-03-03 10:15:00"
      [] date_str = "d2" -> "2026-03-04 18:40:00"
      [] OTHER -> "now"

(***************************************************************************)
(* main() (src/main.py 262-318), one action per call that can change state *)
(***************************************************************************)
Init ==
    /\ sheets \in InitialSheets
    /\ mailbox \in Mailboxes
    /\ pc = "idle" /\ ws = "" /\ msgs = <<>> /\ existing = {} /\ rows = <<>>
    /\ mi = 0 /\ images = <<>> /\ ii = 1 /\ abortAt = "none"
    /\ prov = <<>> /\ processed = {} /\ wrote = <<>> /\ sheets0 = sheets
    /\ run = 0 /\ completed = 0
    /\ CleanIdle /\ ParseIdle /\ SyncIdle

harnessVars == <<raw, cleaned, df, out, parsed, syncVars>>

\* sheets_client (60-80), entered by a new run of main()
SheetsClient ==
    /\ pc \in {"idle", "done", "aborted"}
    /\ run < MaxRuns
    /\ run' = run + 1
    /\ sheets0' = sheets
    /\ LET tabs == DOMAIN sheets
           target == IF Preferred \in tabs THEN Preferred
                     ELSE IF Alt \in tabs THEN Alt ELSE Preferred
       IN  IF target \in tabs
           THEN /\ ws' = target
                /\ wrote' = <<>>
                /\ UNCHANGED sheets
           ELSE /\ ws' = Preferred
                /\ sheets' = [t \in tabs \cup {Preferred} |->
                                 IF t = Preferred THEN <<Header>> ELSE sheets[t]]
                /\ wrote' = <<"add_worksheet", "append_row">>
    /\ pc' = "opened"
    /\ msgs' = <<>> /\ existing' = {} /\ rows' = <<>> /\ prov' = <<>>
    /\ mi' = 0 /\ images' = <<>> /\ ii' = 1 /\ abortAt' = "none" /\ processed' = {}
    /\ UNCHANGED <<mailbox, completed, harnessVars>>

\* fetch_messages (272-276)
FetchMessages ==
    /\ pc = "opened"
    /\ msgs' = fetch_messages(mailbox)
    /\ IF msgs' = <<>>
       THEN pc' = "done" /\ completed' = completed + 1
       ELSE pc' = "fetched" /\ UNCHANGED completed
    /\ UNCHANGED <<sheets, mailbox, ws, existing, rows, mi, images, ii, abortAt,
                   prov, processed, wrote, sheets0, run, harnessVars>>

\* the Gmail request raises
FetchMessagesFails ==
    /\ pc = "opened"
    /\ pc' = "aborted"
    /\ abortAt' = "fetch_messages"
    /\ UNCHANGED <<sheets, mailbox, ws, msgs, existing, rows, mi, images, ii,
                   prov, processed, wrote, sheets0, run, completed, harnessVars>>

\* read_existing (278)
ReadExisting ==
    /\ pc = "fetched"
    /\ LET r == read_existing(sheets[ws])
       IN  IF r.raised
           THEN pc' = "aborted" /\ abortAt' = "read_existing" /\ UNCHANGED existing
           ELSE pc' = "loop" /\ existing' = r.keys /\ UNCHANGED abortAt
    /\ UNCHANGED <<sheets, mailbox, ws, msgs, rows, mi, images, ii,
                   prov, processed, wrote, sheets0, run, completed, harnessVars>>

\* the Sheets request of get_all_values raises
ReadExistingFails ==
    /\ pc = "fetched"
    /\ pc' = "aborted"
    /\ abortAt' = "read_existing"
    /\ UNCHANGED <<sheets, mailbox, ws, msgs, existing, rows, mi, images, ii,
                   prov, processed, wrote, sheets0, run, completed, harnessVars>>

\* the head of the loop over msgs (282-289)
GetMessage ==
    /\ pc = "loop"
    /\ ii > Len(images)
    /\ mi < Len(msgs)
    /\ mi' = mi + 1
    /\ LET msg == GetMessageById(mailbox, msgs[mi + 1].id)
           got == get_images_from_message(msg)
       IN  IF got.raised
           THEN /\ pc' = "aborted" /\ abortAt' = "get_images_from_message"
                /\ UNCHANGED <<images, ii>>
           ELSE /\ images' = got.out /\ ii' = 1
                /\ UNCHANGED <<pc, abortAt>>
    /\ UNCHANGED <<sheets, mailbox, ws, msgs, existing, rows,
                   prov, processed, wrote, sheets0, run, completed, harnessVars>>

\* the body of the loop over images (291-308); nothing in it catches
ProcessImage ==
    /\ pc = "loop"
    /\ ii <= Len(images)
    /\ LET msg == GetMessageById(mailbox, msgs[mi].id)
           message_id == msg.id
           fecha == parse_gmail_date(msg.date)
           origin == images[ii][1]
           pre == preprocess(images[ii][2])
       IN  IF pre.pixels \in TesseractFails
           THEN /\ pc' = "aborted" /\ abortAt' = "process_image"
                /\ UNCHANGED <<rows, prov, processed, ii>>
           ELSE LET items == parse_table(OcrData(pre.pixels))
                    kept == KeptItems(items, message_id, existing)
                IN  /\ rows' = rows \o NewRows(items, fecha, message_id,
                                               hash_image(pre), origin, existing)
                    /\ prov' = prov \o [k \in 1..Len(kept) |-> <<mi, ii, kept[k]>>]
                    /\ processed' = processed \cup {<<mi, ii>>}
                    /\ ii' = ii + 1
                    /\ UNCHANGED <<pc, abortAt>>
    /\ UNCHANGED <<sheets, mailbox, ws, msgs, existing, mi, images,
                   wrote, sheets0, run, completed, harnessVars>>

LoopsFinished == pc = "loop" /\ mi = Len(msgs) /\ ii > Len(images)

AppendRows_overwrites ==
    /\ LoopsFinished
    /\ rows # <<>>
    /\ sheets' = [sheets EXCEPT ![ws] = <<Header>> \o rows]
    /\ wrote' = Append(wrote, "append_rows")
    /\ pc' = "done"
    /\ completed' = completed + 1
    /\ UNCHANGED <<mailbox, ws, msgs, existing, rows, mi, images, ii, abortAt,
                   prov, processed, sheets0, run, harnessVars>>

\* ws.append_rows(rows) (314-316)
AppendRows ==
    /\ LoopsFinished
    /\ rows # <<>>
    /\ sheets' = [sheets EXCEPT ![ws] = @ \o rows]
    /\ wrote' = Append(wrote, "append_rows")
    /\ pc' = "done"
    /\ completed' = completed + 1
    /\ UNCHANGED <<mailbox, ws, msgs, existing, rows, mi, images, ii, abortAt,
                   prov, processed, sheets0, run, harnessVars>>

\* "No hay filas nuevas para agregar." (317-318)
NothingNew ==
    /\ LoopsFinished
    /\ rows = <<>>
    /\ pc' = "done"
    /\ completed' = completed + 1
    /\ UNCHANGED <<sheets, mailbox, ws, msgs, existing, rows, mi, images, ii, abortAt,
                   prov, processed, wrote, sheets0, run, harnessVars>>

Next ==
    \/ SheetsClient
    \/ FetchMessages
    \/ FetchMessagesFails
    \/ ReadExisting
    \/ ReadExistingFails
    \/ GetMessage
    \/ ProcessImage
    \/ AppendRows
    \/ NothingNew

Spec == Init /\ [][Next]_vars

(***************************************************************************)
(* Properties of main() (Spec)                                             *)
(***************************************************************************)
LedgerTabs == DOMAIN sheets \cap {Preferred, Alt}
RowKey(r) == <<r[4], r[2], r[3]>>
Wrote(call) == \E i \in 1..Len(wrote) : wrote[i] = call

\* what each message holds, read off its MIME tree by hand: the images that
\* decode, as <<origin, image>>, in the order of the parts
ExpectedImages(id) ==
    CASE id = "mA" -> << <<"attachment", "imgH">>, <<"inline", "imgBlank">> >>
      [] id = "mB" -> << <<"inline", "imgN">> >>
      [] id = "mC" -> << <<"attachment", "imgH">>, <<"inline", "imgN">> >>
      [] id = "mD" -> << <<"inline", "imgDup">> >>
      [] id = "mE" -> << <<"attachment", "imgBad">>, <<"inline", "imgN">> >>

\* what each image shows, read off its table by hand: <<identifier, quantity>> per line
ExpectedItems(img) ==
    CASE img = "imgH" -> << <<SkuA, <<"1", "2">> >>, <<SkuB, <<"0">> >> >>
      [] img = "imgN" -> << <<SkuA, <<"1", "2">> >> >>
      [] img = "imgDup" -> << <<SkuB, <<"5">> >>, <<SkuB, <<"5">> >> >>
      [] OTHER -> <<>>

AllImagesProcessed ==
    \A m \in 1..Len(msgs) :
        \A k \in 1..Len(ExpectedImages(msgs[m].id)) : <<m, k>> \in processed

C2_NoDuplicateKeys ==
    /\ \A t \in LedgerTabs : \A i, j \in 2..Len(sheets[t]) :
           i # j => RowKey(sheets[t][i]) # RowKey(sheets[t][j])
    /\ \A i, j \in 1..Len(rows) : i # j => RowKey(rows[i]) # RowKey(rows[j])

\* C7: undecodable image bytes never raise out of get_images_from_message; the
\* images collected for a message are exactly its decodable ones, in order, and
\* a run that completes has processed every decodable image of every message.
C7_MalformedImageSkipped ==
    /\ abortAt # "get_images_from_message"
    /\ (pc \in {"loop", "done", "aborted"} /\ mi >= 1)
       => LET want == ExpectedImages(msgs[mi].id)
          IN  /\ Len(images) = Len(want)
              /\ \A k \in 1..Len(want) :
                     images[k] = <<want[k][1], [pixels |-> want[k][2]]>>
    /\ (pc = "done" /\ msgs # <<>>) => AllImagesProcessed

\* message mA (an undecodable inline image before its attachment) then mB:
\* the attachment of mA and the image of mB were both processed and recorded
C7_Witness ==
    /\ pc = "done"
    /\ Len(msgs) = 2 /\ msgs[1].id = "mA" /\ msgs[2].id = "mB"
    /\ processed = {<<1, 1>>, <<1, 2>>, <<2, 1>>}
    /\ \E k \in 1..Len(rows) : rows[k][4] = "mA" /\ rows[k][6] = "attachment"
    /\ \E k \in 1..Len(rows) : rows[k][4] = "mB"
    /\ Wrote("append_rows")

\* C8: a failure while normalizing, OCR-ing or fingerprinting one image does
\* not end the run; the run goes on to the remaining images and messages.
C8_ImageFailureAbsorbed ==
    /\ abortAt # "process_image"
    /\ pc = "aborted" => abortAt \in {"fetch_messages", "read_existing"}

\* C9: a run ended by a failure of fetch_messages or read_existing has issued
\* no write to the spreadsheet.
C9_FatalBeforeAnyWrite ==
    abortAt \in {"fetch_messages", "read_existing"}
    => wrote = <<>> /\ sheets = sheets0

IsPrefix(a, b) == Len(a) <= Len(b) /\ SubSeq(b, 1, Len(a)) = a

ProvLess(a, b) ==
    \/ a[1] < b[1]
    \/ a[1] = b[1] /\ a[2] < b[2]
    \/ a[1] = b[1] /\ a[2] = b[2] /\ a[3] < b[3]

\* the batch lists the extracted records in message / image / line order
BatchInProcessingOrder ==
    /\ Len(prov) = Len(rows)
    /\ \A i, j \in 1..Len(prov) : i < j => ProvLess(prov[i], prov[j])
    /\ \A k \in 1..Len(rows) :
           LET id == msgs[prov[k][1]].id
               image == ExpectedImages(id)[prov[k][2]]
               item == ExpectedItems(image[2])[prov[k][3]]
           IN  /\ rows[k][4] = id
               /\ rows[k][6] = image[1]
               /\ rows[k][5] = <<"sha256", image[2], "L", 3>>
               /\ rows[k][2] = item[1]
               /\ rows[k][3] = item[2]

C10_Step ==
    /\ \A t \in DOMAIN sheets :
           t \in DOMAIN sheets' /\ IsPrefix(sheets[t], sheets'[t])
    /\ (\E t \in DOMAIN sheets : sheets'[t] # sheets[t])
       => /\ ~Wrote("append_rows")
          /\ AllImagesProcessed
          /\ BatchInProcessingOrder
          /\ sheets' = [sheets EXCEPT ![ws] = sheets[ws] \o rows]

\* C10: a run appends data rows at most once, as one batch in processing order
\* and only after every message and image has been processed; rows that
\* existed are never rewritten, deleted or reordered.
C10_SingleBatchedAppend == [][C10_Step]_vars

\* a batch of three rows from two messages appended after an earlier row
C10_Witness ==
    /\ pc = "done" /\ Wrote("append_rows")
    /\ Len(msgs) = 2 /\ Len(rows) >= 3
    /\ ws \in DOMAIN sheets0 /\ Len(sheets0[ws]) = 2
    /\ sheets[ws] = sheets0[ws] \o rows
    /\ \E k \in 1..Len(rows) : prov[k][1] = 1
    /\ \E k \in 1..Len(rows) : prov[k][1] = 2

(***************************************************************************)
(* Properties of the dedup key (Spec)                                      *)
(***************************************************************************)
\* the records of the messages of this run, by the hand-read oracles:
\* <<message_id, identifier, quantity string>>
RecordsOfImage(id, img) ==
    {<<id, ExpectedItems(img)[n][1], ExpectedItems(img)[n][2]>> :
        n \in 1..Len(ExpectedItems(img))}

RecordsOfMessage(id) ==
    UNION {RecordsOfImage(id, ExpectedImages(id)[k][2]) :
              k \in 1..Len(ExpectedImages(id))}

ExtractedRecords == UNION {RecordsOfMessage(msgs[m].id) : m \in 1..Len(msgs)}

\* the data rows the ledger held when the run started
StoredRows ==
    IF ws \in DOMAIN sheets0
    THEN {sheets0[ws][i] : i \in 2..Len(sheets0[ws])}
    ELSE {}

\* a stored row has the message id and the digits of the record, and its
\* quantity cell is, character for character, the record's quantity string
StoredVerbatim(e) ==
    \E r \in StoredRows : r[4] = e[1] /\ DigitsOf(r[2]) = e[2] /\ r[3] = e[3]

InBatch(e) == \E k \in 1..Len(rows) : RowKey(rows[k]) = e
\* C12: the quantity of a stored row is compared as the cell is written: a
\* record is appended by a completed run unless a stored row with its message
\* id and identifier digits has exactly its quantity string, so a stored "00"
\* does not suppress a new "0".
C12_QuantityComparedAsString ==
    (pc = "done" /\ msgs # <<>>)
    => \A e \in ExtractedRecords : ~StoredVerbatim(e) => InBatch(e)

\* the ledger held (mA, SkuB, "00"); the run appended (mA, SkuB, "0") after it
C12_Witness ==
    /\ pc = "done"
    /\ LegacyZeroRow \in StoredRows
    /\ InBatch(<<"mA", SkuB, <<"0">> >>)
    /\ \E i, j \in 2..Len(sheets[ws]) :
           /\ i < j
           /\ sheets[ws][i] = LegacyZeroRow
           /\ RowKey(sheets[ws][j]) = <<"mA", SkuB, <<"0">> >>

\* C13: stored identifiers are canonicalized before they are compared: no row
\* of the batch has the message id, the identifier digits and the quantity
\* string of a stored row, whatever non-digits the stored identifier carries.
C13_StoredIdentifierNormalized ==
    \A k \in 1..Len(rows) : ~StoredVerbatim(RowKey(rows[k]))

\* the ledger held (mB, '1780234567, "12"); the run extracted (mB, 1780234567,
\* "12") from the image of mB and did not put it in the batch
C13_Witness ==
    /\ pc = "done"
    /\ LegacyApostropheRow \in StoredRows
    /\ \E m \in 1..Len(msgs) : msgs[m].id = "mB" /\ <<m, 1>> \in processed
    /\ <<"mB", SkuA, <<"1", "2">> >> \in ExtractedRecords
    /\ ~InBatch(<<"mB", SkuA, <<"1", "2">> >>)

(***************************************************************************)
(* The forwarding stage (src/parrotfy_sync.py)                             *)
(* Header cells are column names (strings); data cells are texts.          *)
(***************************************************************************)
FlagColumn == "parrotfy_enviado"
BlankName == ""
BlankCell == <<>>

\* h.strip().lower() on the column names that occur
NormName(h) ==
    CASE h = " Parrotfy_Enviado" -> "parrotfy_enviado"
      [] h = "SKU" -> "sku"
      [] h = "Precio " -> "precio"
      [] OTHER -> h

NormHeader(header) == [i \in 1..Len(header) |-> NormName(header[i])]

\* header.index(name), 1-based; 0 when the name is absent
FirstIndex(header, name) ==
    LET at == {i \in 1..Len(header) : header[i] = name}
    IN  IF at = {} THEN 0 ELSE CHOOSE i \in at : \A j \in at : i <= j

Max(a, b) == IF a >= b THEN a ELSE b

RECURSIVE MaxLen(_)
MaxLen(values) ==
    IF values = <<>> THEN 0 ELSE Max(Len(Head(values)), MaxLen(Tail(values)))

PadRow(r, width, blank) == r \o [k \in 1..(width - Len(r)) |-> blank]

\* ws.get_all_values(): the rows, each padded with empty cells to the widest
get_all_values(values) ==
    [i \in 1..Len(values) |->
        PadRow(values[i], MaxLen(values), IF i = 1 THEN BlankName ELSE BlankCell)]

\* str.replace(",", ".")
CommaToDot(s) == [i \in 1..Len(s) |-> IF s[i] = "," THEN "." ELSE s[i]]

\* float(text) for plain decimal texts: surrounding blanks, an optional sign,
\* digits with at most one point and at least one digit; anything else raises.
\* [ok, neg, ip, fp]: the sign and the digits before and after the point.
FloatOf(text) ==
    LET t == Strip(text)
        signed == t # <<>> /\ Head(t) \in {"-", "+"}
        body == IF signed THEN Tail(t) ELSE t
        points == {i \in 1..Len(body) : body[i] = "."}
        p == IF points = {} THEN Len(body) + 1 ELSE CHOOSE i \in points : TRUE
        ip == SubSeq(body, 1, p - 1)
        fp == SubSeq(body, p + 1, Len(body))
        ok == /\ Cardinality(points) <= 1
              /\ \A i \in 1..Len(body) : body[i] \in Digits \cup {"."}
              /\ Len(ip) + Len(fp) >= 1
    IN  [ok |-> ok, neg |-> signed /\ Head(t) = "-", ip |-> ip, fp |-> fp]

\* int(x) of a float: the digits before the point
TruncOf(x) == IF x.ip = <<>> THEN <<0>> ELSE IntOf(x.ip)

\* float.is_integer()
IsInteger(x) == \A i \in 1..Len(x.fp) : x.fp[i] = "0"

\* try: qty = int(float(str(cell).replace(",", "."))) except: qty = 0
QtyOf(cell) ==
    LET x == FloatOf(CommaToDot(cell))
    IN  IF x.ok THEN [neg |-> x.neg /\ TruncOf(x) # <<0>>, abs |-> TruncOf(x)]
        ELSE [neg |-> FALSE, abs |-> <<0>>]

Positive(q) == ~q.neg /\ q.abs # <<0>>

\* pick_rows (59-85): [pending, row_indexes]
PickedRows_ignores_flag(rs) ==
    LET header == NormHeader(rs[1])
        idx_sku == FirstIndex(header, "sku")
        idx_unr == FirstIndex(header, "un_recibidas")
        Picked(i) ==
            /\ Len(rs[i]) >= Max(idx_sku, idx_unr)
            /\ SelectSeq(rs[i][idx_sku], IsDigit) # <<>>
            /\ Positive(QtyOf(rs[i][idx_unr]))
    IN  SelectSeq([k \in 1..(Len(rs) - 1) |-> k + 1], Picked)

\* the sheet rows (1-based, header is row 1) that pick_rows keeps, in order
PickedRows(rs) ==
    LET header == NormHeader(rs[1])
        idx_sku == FirstIndex(header, "sku")
        idx_unr == FirstIndex(header, "un_recibidas")
        idx_flag == FirstIndex(header, FlagColumn)
        Picked(i) ==
            /\ Len(rs[i]) >= Max(idx_sku, idx_unr)
            /\ ~(idx_flag # 0 /\ Len(rs[i]) >= idx_flag /\ Strip(rs[i][idx_flag]) # <<>>)
            /\ SelectSeq(rs[i][idx_sku], IsDigit) # <<>>
            /\ Positive(QtyOf(rs[i][idx_unr]))
    IN  SelectSeq([k \in 1..(Len(rs) - 1) |-> k + 1], Picked)

pick_rows(values) ==
    LET rs == get_all_values(values)
    IN  IF rs = <<>> THEN [pending |-> <<>>, row_indexes |-> <<>>]
        ELSE LET header == NormHeader(rs[1])
                 idx_sku == FirstIndex(header, "sku")
                 idx_unr == FirstIndex(header, "un_recibidas")
                 ids == PickedRows(rs)
             IN  [pending |-> [k \in 1..Len(ids) |->
                                  <<SelectSeq(rs[ids[k]][idx_sku], IsDigit),
                                    QtyOf(rs[ids[k]][idx_unr]).abs>>],
                  row_indexes |-> ids]

\* read_prices (38-57): identifier digits -> price, later rows win
read_prices(values) ==
    LET rs == get_all_values(values)
    IN  IF rs = <<>> THEN <<>>
        ELSE LET header == NormHeader(rs[1])
                 idx_sku == FirstIndex(header, "sku")
                 idx_price == IF FirstIndex(header, "precio") # 0
                              THEN FirstIndex(header, "precio")
                              ELSE FirstIndex(header, "precios")
                 Sku(i) == SelectSeq(rs[i][idx_sku], IsDigit)
                 valid == {i \in 2..Len(rs) :
                             /\ Len(rs[i]) >= Max(idx_sku, idx_price)
                             /\ Sku(i) # <<>>
                             /\ FloatOf(CommaToDot(rs[i][idx_price])).ok}
                 Last(sku) == CHOOSE i \in valid :
                                 Sku(i) = sku /\ \A j \in valid : Sku(j) = sku => j <= i
             IN  [sku \in {Sku(i) : i \in valid} |->
                     FloatOf(CommaToDot(rs[Last(sku)][idx_price]))]

HasPrice(pm, sku) == sku \in DOMAIN pm

ZeroPrice == [ok |-> TRUE, neg |-> FALSE, ip |-> <<"0">>, fp |-> <<"0">>]

\* str(int(price)) if float(price).is_integer() else str(price)
PriceStr(x) ==
    LET sign == IF x.neg /\ (TruncOf(x) # <<0>> \/ ~IsInteger(x)) THEN <<"-">> ELSE <<>>
    IN  IF IsInteger(x) THEN sign \o StrOfInt(TruncOf(x))
        ELSE sign \o StrOfInt(TruncOf(x)) \o <<".">> \o RStrip(x.fp, {"0"})

RECURSIVE JoinLines(_)
JoinLines(lines) ==
    IF lines = <<>> THEN <<>>
    ELSE IF Len(lines) = 1 THEN lines[1]
    ELSE lines[1] \o <<"\n">> \o JoinLines(Tail(lines))

\* positions in pending_rows of the records build_import_text puts in the payload
InPayload(rows_, pm, strict_) ==
    LET Kept(k) == HasPrice(pm, rows_[k][1]) \/ ~strict_
    IN  SelectSeq([k \in 1..Len(rows_) |-> k], Kept)

\* build_import_text (188-200): [text, missing, triples]
build_import_text(rows_, pm, strict_) ==
    LET kept == InPayload(rows_, pm, strict_)
        NoPrice(k) == ~HasPrice(pm, rows_[k][1])
        dropped == IF strict_ THEN SelectSeq([k \in 1..Len(rows_) |-> k], NoPrice) ELSE <<>>
        Price(k) == IF HasPrice(pm, rows_[k][1]) THEN pm[rows_[k][1]] ELSE ZeroPrice
        Line(k) == rows_[k][1] \o <<"\t">> \o StrOfInt(rows_[k][2])
                       \o <<"\t">> \o PriceStr(Price(k))
    IN  [text |-> JoinLines([n \in 1..Len(kept) |-> Line(kept[n])]),
         missing |-> [n \in 1..Len(dropped) |-> rows_[dropped[n]][1]],
         triples |-> [n \in 1..Len(kept) |->
                        <<rows_[kept[n]][1], rows_[kept[n]][2], PriceStr(Price(kept[n]))>>]]

\* ws.update_cell / one range of ws.batch_update: the cell at (r, c)
SetCell(values, r, c, v, blank) ==
    [values EXCEPT ![r] =
        [k \in 1..Max(Len(@), c) |->
            IF k = c THEN v ELSE IF k <= Len(@) THEN @[k] ELSE blank]]

RECURSIVE StampRows(_, _, _, _)
StampRows(values, ids, col, ts) ==
    IF ids = <<>> THEN values
    ELSE StampRows(SetCell(values, Head(ids), col, ts, BlankCell), Tail(ids), col, ts)

\* mark_sent (87-100)
mark_sent(values, row_indexes, ts) ==
    IF row_indexes = <<>> THEN values
    ELSE LET header == NormHeader(get_all_values(values)[1])
             absent == FirstIndex(header, FlagColumn) = 0
             col == IF absent THEN Len(header) + 1 ELSE FirstIndex(header, FlagColumn)
             titled == IF absent THEN SetCell(values, 1, col, FlagColumn, BlankName)
                       ELSE values
         IN  StampRows(titled, row_indexes, col, ts)

\* datetime.now().strftime(...)
Timestamp == <<"2", "0", "2", "6", "-", "1", "1", "-", "0", "2">>

(***************************************************************************)
(* The ledger and the price list the forwarding stage starts from          *)
(***************************************************************************)
LedgerRow(sku, qty, message_id) ==
    <<"2026-03-03 10:15:00", sku, qty, message_id,
      hash_image(preprocess([pixels |-> "imgN"])), "inline">>

\* rows as the ingestion stage leaves them, plus cells edited by hand
UnflaggedRows ==
    { LedgerRow(SkuA, <<"1", "2">>, "mB"),
      LedgerRow(SkuB, <<"5">>, "mD"),
      LedgerRow(<<"'">> \o SkuA, <<"1", ",", "5">>, "mC"),
      LedgerRow(SkuA, <<"0", ".", "9">>, "mA"),
      LedgerRow(SkuB, <<"-", "3">>, "mA"),
      LedgerRow(SkuA, <<"x">>, "mE"),
      LedgerRow(<<"a", "b", "c">>, <<"3">>, "mE") }

\* rows whose flag cell exists: stamped by an earlier run, or holding a blank
FlaggedRows ==
    { Append(LedgerRow(SkuB, <<"7">>, "mD"), Timestamp),
      Append(LedgerRow(SkuA, <<"1", "2">>, "mC"), <<" ">>) }

RECURSIVE RowSeqsUpTo(_, _)
RowSeqsUpTo(n, candidates) ==
    IF n = 0 THEN {<<>>}
    ELSE LET shorter == RowSeqsUpTo(n - 1, candidates)
         IN  shorter \cup {Append(q, r) : q \in shorter, r \in candidates}

SyncLedgers ==
    {<<Header>> \o q : q \in RowSeqsUpTo(MaxSyncRows, UnflaggedRows)}
    \cup {<<Append(Header, " Parrotfy_Enviado")>> \o q :
             q \in RowSeqsUpTo(MaxSyncRows, UnflaggedRows \cup FlaggedRows)}

PriceLists ==
    { << <<"SKU", "Precio ">>, <<SkuA, <<"1", "9", "9", "0">> >> >>,
      << <<"sku", "precio">>, <<SkuB, <<"1", "9", ",", "5">> >>, <<SkuA, <<"x">> >> >>,
      << <<"sku", "precios">>, <<SkuA, <<"5", "0", "0">> >>,
                               <<SkuB, <<"9", "9", ".", "0">> >>,
                               <<SkuA, <<"1", "9", "9", "0">> >> >> }

\* a row the ingestion stage appends while the forwarding stage is running
IngestedRows == { LedgerRow(SkuB, <<"4">>, "mF") }

InitSync ==
    /\ \E ledger \in SyncLedgers, prices \in PriceLists :
           sheets = [t \in {Preferred, Prices} |->
                        IF t = Preferred THEN ledger ELSE prices]
    /\ strict \in BOOLEAN
    /\ spc = "idle" /\ price_map = <<>> /\ pending = <<>> /\ row_ids = <<>>
    /\ import_text = <<>> /\ missing = <<>> /\ triples = <<>>
    /\ payload_ids = {} /\ submitted = <<>> /\ stamped = {} /\ sentBefore = {}
    /\ syncRun = 0 /\ ingested = 0
    /\ mailbox = <<>> /\ pc = "idle" /\ ws = "" /\ msgs = <<>>
    /\ existing = {} /\ mi = 0 /\ images = <<>> /\ ii = 0 /\ abortAt = "none"
    /\ prov = <<>> /\ processed = {} /\ wrote = <<>> /\ sheets0 = <<>>
    /\ run = 0 /\ completed = 0 /\ rows = <<>>
    /\ CleanIdle /\ ParseIdle

notSyncVars == <<mailbox, pc, ws, msgs, existing, rows, mi, images, ii, abortAt,
                 prov, processed, wrote, sheets0, run, completed,
                 raw, cleaned, df, out, parsed>>

(***************************************************************************)
(* main() of the forwarding stage (src/parrotfy_sync.py 360-385)           *)
(***************************************************************************)
\* open_sheet, read_prices, pick_rows, build_import_text (362-378)
SyncPick ==
    /\ spc \in {"idle", "done", "failed", "marked"}
    /\ syncRun < MaxSyncRuns
    /\ syncRun' = syncRun + 1
    /\ sentBefore' = sentBefore \cup stamped
    /\ stamped' = {}
    /\ \E pm \in {read_prices(sheets[Prices])}, picked \in {pick_rows(sheets[Preferred])} :
         \E built \in {build_import_text(picked.pending, pm, strict)},
            kept \in {InPayload(picked.pending, pm, strict)} :
           /\ price_map' = pm
           /\ pending' = picked.pending
           /\ row_ids' = picked.row_indexes
           /\ IF picked.pending = <<>>
              THEN /\ spc' = "done"
                   /\ import_text' = <<>> /\ missing' = <<>> /\ triples' = <<>>
                   /\ payload_ids' = {}
              ELSE /\ import_text' = built.text
                   /\ missing' = built.missing
                   /\ triples' = built.triples
                   /\ payload_ids' = {picked.row_indexes[kept[n]] : n \in 1..Len(kept)}
                   /\ spc' = IF built.missing # <<>> /\ strict /\ Strip(built.text) = <<>>
                             THEN "done" ELSE "built"
    /\ UNCHANGED <<sheets, strict, submitted, ingested, notSyncVars>>

\* run_parrotfy_import returns (381)
SyncImport ==
    /\ spc = "built"
    /\ submitted' = Append(submitted,
                           [text |-> import_text, triples |-> triples, ids |-> payload_ids])
    /\ spc' = "imported"
    /\ UNCHANGED <<sheets, strict, price_map, pending, row_ids, import_text, missing,
                   triples, payload_ids, stamped, sentBefore, syncRun, ingested,
                   notSyncVars>>

\* run_parrotfy_import raises: main ends before mark_sent
SyncImportRaises ==
    /\ spc = "built"
    /\ spc' = "failed"
    /\ UNCHANGED <<sheets, strict, price_map, pending, row_ids, import_text, missing,
                   triples, payload_ids, submitted, stamped, sentBefore, syncRun,
                   ingested, notSyncVars>>

\* mark_sent(ws_data, row_ids) (384)
SyncMarkSent ==
    /\ spc = "imported"
    /\ sheets' = [sheets EXCEPT ![Preferred] = mark_sent(@, row_ids, Timestamp)]
    /\ stamped' = {row_ids[k] : k \in 1..Len(row_ids)}
    /\ spc' = "marked"
    /\ UNCHANGED <<strict, price_map, pending, row_ids, import_text, missing, triples,
                   payload_ids, submitted, sentBefore, syncRun, ingested, notSyncVars>>

\* the ingestion stage appends a row (src/main.py 315) at any moment
SyncIngest ==
    /\ ingested < MaxIngest
    /\ \E r \in IngestedRows : sheets' = [sheets EXCEPT ![Preferred] = Append(@, r)]
    /\ ingested' = ingested + 1
    /\ UNCHANGED <<strict, spc, price_map, pending, row_ids, import_text, missing,
                   triples, payload_ids, submitted, stamped, sentBefore, syncRun,
                   notSyncVars>>

NextSync ==
    \/ SyncPick
    \/ SyncImport
    \/ SyncImportRaises
    \/ SyncMarkSent
    \/ SyncIngest

SpecSync == InitSync /\ [][NextSync]_vars

(***************************************************************************)
(* Properties of the forwarding stage                                      *)
(***************************************************************************)
\* the flag cell of a ledger row as stored (column 7), empty when the row is shorter
FlagOf(r) == IF Len(r) >= 7 THEN r[7] ELSE <<>>

IsBlank(cell) == \A i \in 1..Len(cell) : cell[i] \in Whitespace

\* what int(float(...)) gives for the quantity cells of the ledgers above,
\* 0 for the cells float() rejects
ParsedQuantity(cell) ==
    CASE cell = <<"1", "2">> -> 12
      [] cell = <<"5">> -> 5
      [] cell = <<"1", ",", "5">> -> 1
      [] cell = <<"0", ".", "9">> -> 0
      [] cell = <<"-", "3">> -> -3
      [] cell = <<"x">> -> 0
      [] cell = <<"3">> -> 3
      [] cell = <<"7">> -> 7
      [] cell = <<"4">> -> 4

DecimalDigits(n) == IF n < 10 THEN <<n>> ELSE <<n \div 10, n % 10>>

InRun == spc \in {"built", "imported"}

\* the rows pick_rows returned are unflagged, carry a digit and a positive quantity
OnlySendableRowsPicked ==
    \A k \in 1..Len(row_ids) :
        LET r == sheets[Preferred][row_ids[k]]
        IN  /\ IsBlank(FlagOf(r))
            /\ \E i \in 1..Len(r[2]) : IsDigit(r[2][i])
            /\ ParsedQuantity(r[3]) > 0
            /\ pending[k] = <<DigitsOf(r[2]), DecimalDigits(ParsedQuantity(r[3]))>>

\* C11: pick_rows returns only rows whose sent flag is absent or blank, whose
\* identifier contains a digit and whose quantity parses to an integer > 0
\* (unparseable quantities count as 0); a row stamped as sent by an earlier
\* run is neither picked nor put into the payload of a later run.
C11_OnlyUnsentPositiveRowsForwarded ==
    /\ InRun => OnlySendableRowsPicked
    /\ spc \in {"built", "imported", "marked"} =>
          /\ {row_ids[k] : k \in 1..Len(row_ids)} \cap sentBefore = {}
          /\ payload_ids \cap sentBefore = {}
    /\ \A n \in sentBefore \cup stamped : ~IsBlank(FlagOf(sheets[Preferred][n]))

\* a second run picks a freshly ingested row while rows stamped by the first
\* run, and rows pick_rows has to reject, are in the ledger
C11_Witness ==
    /\ spc = "built" /\ syncRun = 2 /\ sentBefore # {}
    /\ row_ids # <<>> /\ payload_ids # {}
    /\ \E n \in 2..Len(sheets[Preferred]) :
          /\ n \notin sentBefore
          /\ \A k \in 1..Len(row_ids) : row_ids[k] # n

\* C14: every row mark_sent stamps was in the payload run_parrotfy_import
\* submitted without error in the same run; a row dropped for a missing price
\* under STRICT_PRICES is not stamped; nothing is stamped when the import raises.
C14_StampedImpliesForwarded ==
    /\ spc = "marked" =>
          /\ submitted # <<>>
          /\ stamped \subseteq submitted[Len(submitted)].ids
          /\ \A k \in 1..Len(pending) :
                (strict /\ ~HasPrice(price_map, pending[k][1])) => row_ids[k] \notin stamped
    /\ spc = "failed" => stamped = {}

====
